---- MODULE Spec2Model ----
(***************************************************************************)
(* File-management agent: the sandboxed file store (tools/tools.py), the   *)
(* vector index kept beside it (rag/vector_store_manager.py) and the query *)
(* router (agent/agent_core.py).                                           *)
(*                                                                         *)
(* A Python str is a sequence of text fragments (each fragment a TLA+      *)
(* string that no operation of the program splits), so that strip,         *)
(* startswith, upper and the substring test are computed, not assumed.     *)
(***************************************************************************)
EXTENDS Bags, FiniteSets, Integers, Sequences, TLC

VARIABLES disk, vector_store, saved, writer, last, pc, req

vars == <<disk, vector_store, saved, writer, last, pc, req>>

----------------------------------------------------------------------------
(* Bounds of the model *)

\* the most entries the index may hold before a further write is not explored
MaxEntries == 3
\* the most tool calls the tool executor makes for one query
MaxToolCalls == 1

----------------------------------------------------------------------------
(* str operations *)

Whitespace == {" ", "\n"}

\* the characters of filename.strip().strip("'\" ")
QuoteChars == {"'", "\"", " "}

RECURSIVE lstrip(_, _)
lstrip(s, chars) ==
    IF s # <<>> /\ Head(s) \in chars THEN lstrip(Tail(s), chars) ELSE s

RECURSIVE rstrip(_, _)
rstrip(s, chars) ==
    IF s # <<>> /\ s[Len(s)] \in chars
    THEN rstrip(SubSeq(s, 1, Len(s) - 1), chars)
    ELSE s

strip(s, chars) == rstrip(lstrip(s, chars), chars)

startswith(s, prefix) ==
    Len(prefix) <= Len(s) /\ SubSeq(s, 1, Len(prefix)) = prefix

\* Python's `needle in haystack` on fragment sequences
contains(haystack, needle) ==
    \E i \in 1..(Len(haystack) - Len(needle) + 1) :
        SubSeq(haystack, i, i + Len(needle) - 1) = needle

----------------------------------------------------------------------------
(* pathlib *)

\* split a path string at "/"
RECURSIVE split(_, _, _)
split(s, cur, acc) ==
    IF s = <<>> THEN Append(acc, cur)
    ELSE IF Head(s) = "/" THEN split(Tail(s), <<>>, Append(acc, cur))
    ELSE split(Tail(s), Append(cur, Head(s)), acc)

parts(s) == split(s, <<>>, <<>>)

\* Path.resolve() on a tree without symlinks: drop empty and "." segments,
\* let ".." remove the segment before it (the root's parent is the root)
RECURSIVE normalize(_, _)
normalize(segs, stack) ==
    IF segs = <<>> THEN stack
    ELSE LET seg == Head(segs) IN
         IF seg = <<>> \/ seg = <<".">> THEN normalize(Tail(segs), stack)
         ELSE IF seg = <<"..">>
              THEN normalize(Tail(segs),
                             IF stack = <<>> THEN stack
                             ELSE SubSeq(stack, 1, Len(stack) - 1))
              ELSE normalize(Tail(segs), Append(stack, seg))

\* str() of an absolute path given by its segments
RECURSIVE pathstr(_)
pathstr(segs) ==
    IF segs = <<>> THEN <<>>
    ELSE <<"/">> \o Head(segs) \o pathstr(Tail(segs))

resolve(s) ==
    LET segs == normalize(parts(s), <<>>)
    IN  IF segs = <<>> THEN <<"/">> ELSE pathstr(segs)

\* base / name: an absolute name replaces the base
joinpath(base, name) ==
    IF name # <<>> /\ Head(name) = "/" THEN name ELSE base \o <<"/">> \o name

\* Path.name
basename(p) == LET segs == normalize(parts(p), <<>>)
               IN  IF segs = <<>> THEN <<>> ELSE segs[Len(segs)]

\* str(p.relative_to(base)) for p under base
relative_to(p, base) == SubSeq(p, Len(base) + 2, Len(p))

\* p lies in the directory tree of dir
is_under(p, dir) == startswith(p, dir \o <<"/">>)

----------------------------------------------------------------------------
(* The workspace *)

base_path == <<"/", "workspace">>

index_dir_name == <<"faiss_index">>

index_path == base_path \o <<"/">> \o index_dir_name

\* the files FAISS.save_local keeps in the index directory
IndexArtifacts == { index_path \o <<"/", "index.faiss">>,
                    index_path \o <<"/", "index.pkl">> }

----------------------------------------------------------------------------
(* File content and the text splitter *)

\* A file's content: `text` names its characters, `len` counts them.  The
\* contents of the model contain no separator the splitter would cut at.
content_of(text, len) == [text |-> text, len |-> len]

\* open(newline=None) on reading, as Path.read_text does: "\r\n" and a lone
\* "\r" both come back as "\n"
RECURSIVE universal_newlines(_)
universal_newlines(s) ==
    IF Len(s) = 0 THEN ""
    ELSE IF Len(s) >= 2 /\ SubSeq(s, 1, 2) = "\r\n"
    THEN "\n" \o universal_newlines(SubSeq(s, 3, Len(s)))
    ELSE IF SubSeq(s, 1, 1) = "\r"
    THEN "\n" \o universal_newlines(SubSeq(s, 2, Len(s)))
    ELSE SubSeq(s, 1, 1) \o universal_newlines(SubSeq(s, 2, Len(s)))

\* p.write_text(content, encoding="utf-8") on a POSIX system: the characters
\* are stored as given ("\n" is the line separator there)
write_text(c) == c

\* p.read_text(encoding="utf-8") of a file holding c
read_text(c) ==
    LET text == universal_newlines(c.text)
    IN  content_of(text, c.len - (Len(c.text) - Len(text)))

chunk_size == 1000

chunk_overlap == 200

\* text[lo:hi] of a content
substr(c, lo, hi) ==
    IF lo = 0 /\ hi = c.len THEN <<c.text>>
    ELSE <<c.text \o "[" \o ToString(lo) \o ":" \o ToString(hi) \o "]">>

Min(a, b) == IF a <= b THEN a ELSE b

\* RecursiveCharacterTextSplitter(chunk_size, chunk_overlap).split_documents:
\* windows of chunk_size characters, each starting chunk_overlap characters
\* before the end of the one before it; no chunk for an empty text
split_documents(c) ==
    LET stride == chunk_size - chunk_overlap
        starts == { k \in 0..(c.len \div stride) :
                       k = 0 \/ (k - 1) * stride + chunk_size < c.len }
    IN  IF c.len = 0 THEN {}
        ELSE { substr(c, k * stride, Min(k * stride + chunk_size, c.len)) :
                   k \in starts }

----------------------------------------------------------------------------
(* VectorStoreManager *)

\* The state the operations work on.  disk maps the path of each regular
\* file to its content; vector_store is the bag of index entries in memory;
\* saved is the persisted index directory; writer (history only, read by no
\* operation) remembers the filename each path was last written under.
\* An index entry is a Document: page_content and metadata["source"];
\* `origin` (history only) is the path of the file it was derived from.
state_of(d, vs, sv, w) ==
    [disk |-> d, vector_store |-> vs, saved |-> sv, writer |-> w]

NoIndex == [exists |-> FALSE, store |-> EmptyBag]

save_local(vs) == [exists |-> TRUE, store |-> vs]

result(st, exc, value) == [st |-> st, exc |-> exc, value |-> value]

\* the value of a call that returns nothing
None == <<>>

_load_or_create_index(sv) == IF sv.exists THEN sv.store ELSE EmptyBag

\* the documents add_file derives from the file at path p, which holds c
docs_of(p, c) ==
    SetToBag({ [source |-> basename(p), page_content |-> t, origin |-> p] :
                   t \in split_documents(read_text(c)) })

\* fail: "none", "embed" (the embedding model raises in add_documents) or
\* "save" (save_local raises)
add_file(st, file_path, save, fail) ==
    IF file_path \notin DOMAIN st.disk
    THEN result(st, "FileNotFoundError", None)
    ELSE IF fail = "embed"
    THEN result(st, "IndexFailure", None)
    ELSE LET vs == st.vector_store (+) docs_of(file_path, st.disk[file_path])
             st1 == [st EXCEPT !.vector_store = vs]
         IN  IF ~save THEN result(st1, "none", None)
             ELSE IF fail = "save" THEN result(st1, "IndexFailure", None)
             ELSE result([st1 EXCEPT !.saved = save_local(vs)], "none", None)

\* the entries remove_file(filename) deletes
ids_to_delete(vs, filename) ==
    { e \in BagToSet(vs) : e.source = filename }

\* vector_store.delete(ids)
delete_ids(vs, ids) ==
    LET keep == BagToSet(vs) \ ids
    IN  [e \in keep |-> vs[e]]

\* fail: "none" or "save" (save_local raises)
remove_file(st, filename, fail) ==
    IF st.vector_store = EmptyBag THEN result(st, "none", None)
    ELSE LET ids == ids_to_delete(st.vector_store, filename)
         IN  IF ids = {} THEN result(st, "none", None)
             ELSE LET vs == delete_ids(st.vector_store, ids)
                      st1 == [st EXCEPT !.vector_store = vs]
                  IN  IF fail = "save" THEN result(st1, "IndexFailure", None)
                      ELSE result([st1 EXCEPT !.saved = save_local(vs)],
                                  "none", None)

\* workspace_path.rglob("*") filtered by is_file(), with the index directory
\* as it is in sv
rglob_files(d, sv, workspace_path) ==
    { p \in DOMAIN d : is_under(p, workspace_path) }
        \cup (IF sv.exists THEN IndexArtifacts ELSE {})

RECURSIVE add_all(_, _)
add_all(st, files) ==
    IF files = {} THEN st
    ELSE LET f == CHOOSE f \in files : TRUE
         IN  add_all(add_file(st, f, FALSE, "none").st, files \ {f})

\* (mutation of rebuild_index_from_workspace: the index in memory is kept,
\* not created anew, before the files are added)
rebuild_index_keeping_entries(st, workspace_path, fail, done) ==
    LET st0 == [st EXCEPT !.saved = NoIndex]
        all_files == rglob_files(st0.disk, st0.saved, workspace_path)
        to_index == { p \in all_files : ~contains(p, index_dir_name) }
        st1 == add_all(st0, to_index)
    IN  result([st1 EXCEPT !.saved = save_local(st1.vector_store)], "none", None)

\* fail: "none", "embed" (add_file raises after the files of `done` were
\* added) or "save" (the final save_local raises)
rebuild_index_from_workspace(st, workspace_path, fail, done) ==
    LET st0 == [st EXCEPT !.saved = NoIndex,
                          !.vector_store = _load_or_create_index(NoIndex)]
        all_files == rglob_files(st0.disk, st0.saved, workspace_path)
        to_index == { p \in all_files : ~contains(p, index_dir_name) }
    IN  IF fail = "embed" /\ to_index # {}
        THEN result(add_all(st0, done \cap to_index), "IndexFailure", None)
        ELSE LET st1 == add_all(st0, to_index)
             IN  IF fail = "save" THEN result(st1, "IndexFailure", None)
                 ELSE result([st1 EXCEPT !.saved = save_local(st1.vector_store)],
                             "none", None)

\* the similarity of a document to a query, standing for the cosine
\* similarity of their embeddings: a function of the two texts alone
Score(query, doc) == IF contains(query, doc.page_content) THEN 1 ELSE 0

\* how often e occurs in the sequence r
Count(r, e) == Cardinality({ i \in DOMAIN r : r[i] = e })

\* vector_store.similarity_search(query, k): the k entries nearest to the
\* query, nearest first; entries of equal similarity come in either order
similarity_search(vs, query, k) ==
    LET n == Min(k, BagCardinality(vs))
        docs == BagToSet(vs)
    IN  { r \in [1..n -> docs] :
            /\ \A e \in docs : Count(r, e) <= vs[e]
            /\ \A i \in 1..(n - 1) : Score(query, r[i]) >= Score(query, r[i + 1])
            /\ \A e \in docs : Count(r, e) < vs[e] =>
                   \A i \in 1..n : Score(query, r[i]) >= Score(query, e) }

top_k == 3

NoRelevantInformation ==
    <<"No relevant information found", " in the documents.">>

\* (mutation of excerpts: the loop runs over the results last to first)
RECURSIVE excerpts_reversed(_)
excerpts_reversed(results) ==
    IF results = <<>> THEN <<>>
    ELSE excerpts_reversed(Tail(results))
         \o <<"--- Excerpt from: ">> \o Head(results).source \o <<" ---\n">>
         \o Head(results).page_content \o <<"\n\n">>

RECURSIVE excerpts(_)
excerpts(results) ==
    IF results = <<>> THEN <<>>
    ELSE <<"--- Excerpt from: ">> \o Head(results).source \o <<" ---\n">>
         \o Head(results).page_content \o <<"\n\n">>
         \o excerpts(Tail(results))

\* (mutation of search: no sentinel, the header alone when nothing was found)
search_without_sentinel(results) ==
    <<"Relevant excerpts from documents found:\n\n">> \o excerpts(results)

\* search, given the results of its similarity_search
search(results) ==
    IF results = <<>> THEN NoRelevantInformation
    ELSE <<"Relevant excerpts from documents found:\n\n">> \o excerpts(results)

----------------------------------------------------------------------------
(* FileTools *)

\* [exc, path]: the access-denied ValueError, or the resolved path
_resolve(filename) ==
    LET safe_filename == strip(strip(filename, Whitespace), QuoteChars)
        candidate == resolve(joinpath(base_path, safe_filename))
    IN  IF ~startswith(candidate, base_path)
        THEN [exc |-> "ValueError", path |-> candidate]
        ELSE [exc |-> "none", path |-> candidate]

list_files(st) ==
    LET all_files == { relative_to(p, base_path) :
                          p \in rglob_files(st.disk, st.saved, base_path) }
    IN  IF st.saved.exists
        THEN { f \in all_files : ~startswith(f, index_dir_name) }
        ELSE all_files

read_file(st, filename) ==
    LET r == _resolve(filename) IN
    IF r.exc # "none" THEN result(st, r.exc, None)
    ELSE IF r.path \notin DOMAIN st.disk
    THEN result(st, "FileNotFoundError", None)
    ELSE result(st, "none", <<read_text(st.disk[r.path]).text>>)

\* (mutation of write_file: an exception of add_file is caught and dropped)
write_file_swallowing(st, filename, content, fail) ==
    LET r == _resolve(filename) IN
    IF r.exc # "none" THEN result(st, r.exc, None)
    ELSE LET p == r.path
             st1 == [st EXCEPT !.disk = (p :> write_text(content)) @@ @,
                               !.writer = (p :> filename) @@ @]
             a == add_file(st1, p, TRUE, fail)
         IN  result(a.st, "none",
                    <<"Wrote ", ToString(content.len), " characters to '">>
                    \o filename \o <<"' and updated the index.">>)

write_file(st, filename, content, fail) ==
    LET r == _resolve(filename) IN
    IF r.exc # "none" THEN result(st, r.exc, None)
    ELSE LET p == r.path
             st1 == [st EXCEPT !.disk = (p :> write_text(content)) @@ @,
                               !.writer = (p :> filename) @@ @]
             a == add_file(st1, p, TRUE, fail)
         IN  IF a.exc # "none" THEN result(a.st, a.exc, None)
             ELSE result(a.st, "none",
                         <<"Wrote ", ToString(content.len), " characters to '">>
                         \o filename \o <<"' and updated the index.">>)

\* p.unlink()
unlink(d, p) == [q \in DOMAIN d \ {p} |-> d[q]]

\* (mutation of delete_file: the index removal comes before the test that
\* the file exists)
delete_file_removing_first(st, filename, fail) ==
    LET r == _resolve(filename) IN
    IF r.exc # "none" THEN result(st, r.exc, None)
    ELSE LET d == remove_file(st, filename, fail) IN
         IF d.exc # "none" THEN result(d.st, d.exc, None)
         ELSE IF r.path \notin DOMAIN st.disk
         THEN result(d.st, "FileNotFoundError", None)
         ELSE result([d.st EXCEPT !.disk = unlink(@, r.path)],
                     "none",
                     <<"Deleted '">> \o filename
                     \o <<"' and removed it from the index.">>)

delete_file(st, filename, fail) ==
    LET r == _resolve(filename) IN
    IF r.exc # "none" THEN result(st, r.exc, None)
    ELSE IF r.path \notin DOMAIN st.disk
    THEN result(st, "FileNotFoundError", None)
    ELSE LET d == remove_file(st, filename, fail) IN
         IF d.exc # "none" THEN result(d.st, d.exc, None)
         ELSE result([d.st EXCEPT !.disk = unlink(@, r.path)],
                     "none",
                     <<"Deleted '">> \o filename
                     \o <<"' and removed it from the index.">>)

answer_question_about_files(results) == search(results)

\* FileTools(base_path) on a directory holding the files d and the persisted
\* index sv: the manager loads sv, then the index is rebuilt
\* (fail and done as in rebuild_index_from_workspace)
FileTools(d, sv, w, fail, done) ==
    rebuild_index_from_workspace(
        state_of(d, _load_or_create_index(sv), sv, w),
        base_path, fail, done)

----------------------------------------------------------------------------
(* Inputs *)

Hello == content_of("hello", 5)

\* a text of 1001 characters: two chunks
Long == content_of("long", 1001)

\* a file whose text is the phrase plan looks for in the search context
Phrase == content_of("No relevant information found", 28)

Contents == {Hello, Long}

\* plain, in a subdirectory, with surrounding whitespace and quotes
FileNames ==
    { <<"a">>, <<"b">>, <<"d", "/", "a">>, <<" ", "'", "a", "'", " ">> }

\* a ".." segment that stays inside the root, traversal to the parent, into
\* the sibling directory /workspace2, and an absolute path
EscapeNames ==
    { <<"d", "/", "..", "/", "a">>,
      <<"..", "/", "a">>,
      <<"..", "/", "workspace", "2", "/", "a">>,
      <<"/", "a">> }

Failures == {"none", "embed", "save"}

\* the directory the program is first started on: no file
EmptyWorkspace == <<>>

Queries == { <<"hello", "?">>, <<"delete", " ", "a">> }

Threads == {1, 2}

----------------------------------------------------------------------------
(* State *)

st_now == state_of(disk, vector_store, saved, writer)

\* the record of the last completed call: `arg` is the filename or the
\* query, `exc` the exception it raised ("none" when it returned), `value`
\* what it returned; the fields after `value` are set by plan (see Plan),
\* `listing` by list_files (see ListFiles); `events` lists the collaborators
\* plan invoked, in the order it invoked them; `results` is what the
\* similarity search of answer_question_about_files returned
call(op, arg, content, fail, exc, value) ==
    [op |-> op, arg |-> arg, content |-> content, fail |-> fail,
     exc |-> exc, value |-> value,
     response |-> <<>>, route |-> "", context |-> <<>>, retrieved |-> 0,
     prompt |-> <<>>, classifications |-> 0, generations |-> 0,
     executions |-> 0, final |-> <<>>, index_failed |-> FALSE,
     calls |-> <<>>, output |-> <<>>, listing |-> {}, events |-> <<>>,
     results |-> <<>>]

NoCall == call("init", <<>>, content_of("", 0), "none", "none", None)

Idle == [t \in Threads |-> "idle"]

\* what a request thread of the server is doing: the tool call it serves,
\* the path the call resolved, and how the call ended ("" while it runs)
request(op, filename, content, path, exc) ==
    [op |-> op, filename |-> filename, content |-> content, path |-> path,
     exc |-> exc]

NoRequest == [t \in Threads |-> request("", <<>>, content_of("", 0), <<>>, "none")]

Install(st) ==
    /\ disk' = st.disk
    /\ vector_store' = st.vector_store
    /\ saved' = st.saved
    /\ writer' = st.writer

Init ==
    /\ LET st == FileTools(EmptyWorkspace, NoIndex, <<>>, "none", {}).st
       IN  /\ disk = st.disk
           /\ vector_store = st.vector_store
           /\ saved = st.saved
           /\ writer = st.writer
    /\ last = NoCall
    /\ pc = Idle
    /\ req = NoRequest

----------------------------------------------------------------------------
(* The file operations, one call at a time *)

\* the index may grow by n more entries within the model's bound
Room(n) == BagCardinality(vector_store) + n <= MaxEntries

WriteFile(filename, content, fail) ==
    /\ Room(Cardinality(split_documents(content)))
    /\ \E r \in { write_file(st_now, filename, content, fail) } :
           /\ Install(r.st)
           /\ last' = call("write_file", filename, content, fail, r.exc, r.value)
    /\ UNCHANGED <<pc, req>>

DeleteFile(filename, fail) ==
    /\ \E r \in { delete_file(st_now, filename, fail) } :
           /\ Install(r.st)
           /\ last' = call("delete_file", filename, content_of("", 0), fail,
                           r.exc, r.value)
    /\ UNCHANGED <<pc, req>>

ReadFile(filename) ==
    /\ \E r \in { read_file(st_now, filename) } :
           /\ Install(r.st)
           /\ last' = call("read_file", filename, content_of("", 0), "none",
                           r.exc, r.value)
    /\ UNCHANGED <<pc, req>>

\* the process is started again on the workspace as it is
Restart(fail, done) ==
    /\ \E r \in { FileTools(disk, saved, writer, fail, done) } :
           /\ Install(r.st)
           /\ last' = call("FileTools", <<>>, content_of("", 0), fail,
                           r.exc, r.value)
    /\ UNCHANGED <<pc, req>>

Next ==
    \/ \E f \in FileNames, c \in Contents : WriteFile(f, c, "none")
    \/ \E f \in FileNames : DeleteFile(f, "none")
    \/ \E f \in FileNames : ReadFile(f)
    \/ Restart("none", {})

Spec == Init /\ [][Next]_vars

----------------------------------------------------------------------------
(* Index and workspace after write_file and delete_file *)

\* the entries of the index derived from the file at path p
EntriesFrom(vs, p) ==
    LET from == { e \in BagToSet(vs) : e.origin = p }
    IN  [e \in from |-> vs[e]]

Completed(op) == last.op = op /\ last.exc = "none"

\* C1: after write_file(f, c) followed by a completed delete_file(f), f is
\* not in list_files(), the index holds no entry derived from f, and no
\* search returns an excerpt derived from f.
C1_DeleteRemovesFileAndEntries ==
    LET p == _resolve(last.arg).path IN
    (/\ Completed("delete_file")
     /\ p \in DOMAIN writer
     /\ writer[p] = last.arg)
    => /\ relative_to(p, base_path) \notin list_files(st_now)
       /\ EntriesFrom(vector_store, p) = EmptyBag
       /\ \A q \in Queries :
            \A r \in similarity_search(vector_store, q, top_k) :
               \A i \in DOMAIN r : r[i].origin # p

\* C2: after a completed write_file(f, c) the entries of the index derived
\* from f are exactly the chunks of c, each once.
C2_WriteReplacesEntries ==
    LET p == _resolve(last.arg).path IN
    Completed("write_file")
    => EntriesFrom(vector_store, p) = docs_of(p, last.content)

\* the live chunks of an index: source and text of each entry, with the
\* number of entries that carry them
RECURSIVE Total(_, _)
Total(vs, es) ==
    IF es = {} THEN 0
    ELSE LET e == CHOOSE e \in es : TRUE
         IN  vs[e] + Total(vs, es \ {e})

Chunk(e) == [source |-> e.source, page_content |-> e.page_content]

LiveChunks(vs) ==
    [k \in { Chunk(e) : e \in BagToSet(vs) } |->
        Total(vs, { e \in BagToSet(vs) : Chunk(e) = k })]

\* C3: the index maintained by write_file and delete_file holds the same live
\* chunks as the index rebuilt from the workspace.
C3_IncrementalEqualsRebuilt ==
    LiveChunks(vector_store)
        = LiveChunks(rebuild_index_from_workspace(
                         st_now, base_path, "none", {}).st.vector_store)

\* C12: read_file(f) and delete_file(f) of a file f that is not in the
\* workspace fail with the not-found error and leave the files of the
\* workspace and the index, in memory and persisted, as they were.
C12_MissingFileNotFound ==
    [][(/\ last'.op \in {"read_file", "delete_file"}
        /\ _resolve(last'.arg).path \notin DOMAIN disk)
          => /\ last'.exc = "FileNotFoundError"
             /\ last'.value = None
             /\ UNCHANGED <<disk, vector_store, saved>>]_vars

\* a delete of a missing file whose name is the source of entries in the
\* index
C12_Witness ==
    /\ last.op = "delete_file"
    /\ last.exc = "FileNotFoundError"
    /\ \E e \in BagToSet(vector_store) : e.source = last.arg

\* C13: rebuild_index_from_workspace is idempotent: once it has run, running
\* it again on the unchanged workspace leaves the same index entries, each
\* once, in memory and persisted, and the same search results, whatever the
\* index held before the first run.
C13_RebuildIdempotent ==
    Completed("FileTools")
    => LET again == rebuild_index_from_workspace(st_now, base_path, "none", {})
       IN  /\ again.exc = "none"
           /\ again.st.vector_store = vector_store
           /\ again.st.saved = saved
           /\ again.st.disk = disk
           /\ \A e \in BagToSet(again.st.vector_store) :
                  again.st.vector_store[e] = 1
           /\ \A q \in Queries :
                  similarity_search(again.st.vector_store, q, top_k)
                      = similarity_search(vector_store, q, top_k)

\* a rebuild completed on a workspace of two files or more
C13_Witness ==
    /\ Completed("FileTools")
    /\ BagCardinality(vector_store) >= 2
    /\ Cardinality(DOMAIN disk) >= 2

\* C20: write_file(f, c) and delete_file(f) change no index entry of another
\* workspace file g, a g of the same base name in another directory
\* included: the entries derived from g are the same before and after.
C20_OtherFilesEntriesUntouched ==
    [][(/\ last'.op \in {"write_file", "delete_file"}
        /\ last'.exc = "none")
          => \A g \in DOMAIN disk \ { _resolve(last'.arg).path } :
                EntriesFrom(vector_store', g) = EntriesFrom(vector_store, g)]_vars

----------------------------------------------------------------------------
(* Filenames that leave the workspace root *)

PathNames == EscapeNames \cup { <<"a">> }

\* files beside the workspace: in its parent and in the sibling /workspace2
OutsideFiles ==
    (<<"/", "a">> :> Long) @@ (<<"/", "workspace", "2", "/", "a">> :> Long)

InitPath ==
    /\ LET st == FileTools(OutsideFiles, NoIndex, <<>>, "none", {}).st
       IN  /\ disk = st.disk
           /\ vector_store = st.vector_store
           /\ saved = st.saved
           /\ writer = st.writer
    /\ last = NoCall
    /\ pc = Idle
    /\ req = NoRequest

NextPath ==
    \/ \E f \in PathNames : WriteFile(f, Hello, "none")
    \/ \E f \in PathNames : DeleteFile(f, "none")
    \/ \E f \in PathNames : ReadFile(f)

SpecPath == InitPath /\ [][NextPath]_vars

\* the filename has a ".." segment once trimmed as _resolve trims it
HasDotDot(filename) ==
    LET segs == parts(strip(strip(filename, Whitespace), QuoteChars))
    IN  \E i \in DOMAIN segs : segs[i] = <<"..">>

\* the path is the root or lies in its directory tree
InsideRoot(p) == p = base_path \/ is_under(p, base_path)

ResolvedPath(filename) ==
    resolve(joinpath(base_path, strip(strip(filename, Whitespace), QuoteChars)))

\* C4: read_file, write_file and delete_file of a filename whose resolved
\* path is not inside the workspace root fail with the access-denied error,
\* and the files outside the root stay as they were.  (The claim says the
\* same of every filename with a ".." segment; "d/../a", which resolves
\* inside the root, is accepted by _resolve as well.)
C4_OutsideRootDenied ==
    /\ (/\ last.op \in {"read_file", "write_file", "delete_file"}
        /\ ~InsideRoot(ResolvedPath(last.arg)))
       => last.exc = "ValueError"
    /\ \A p \in DOMAIN disk \cup DOMAIN OutsideFiles :
         ~InsideRoot(p) => /\ p \in DOMAIN disk
                           /\ p \in DOMAIN OutsideFiles
                           /\ disk[p] = OutsideFiles[p]

----------------------------------------------------------------------------
(* FileAgent: the query router *)

\* str.upper() on the fragments classifier outputs are made of
upper_fragment(f) ==
    CASE f = "on-topic" -> "ON-TOPIC"
      [] f = "On-Topic" -> "ON-TOPIC"
      [] f = "off-topic" -> "OFF-TOPIC"
      [] f = "yes" -> "YES"
      [] OTHER -> f

upper(s) == [i \in DOMAIN s |-> upper_fragment(s[i])]

\* (mutation of _is_query_on_topic: the verdict is looked for in the output)
_is_query_on_topic_substring(response) ==
    contains(upper(strip(response, Whitespace)), <<"ON-TOPIC">>)

\* the verdict of _is_query_on_topic, given the classifier's response.content
_is_query_on_topic(response) ==
    LET classification == upper(strip(response, Whitespace))
    IN  classification = <<"ON-TOPIC">>

refusal_message ==
    <<"I am a file management assistant. I cannot answer off-topic ",
      "or general knowledge questions.">>

final_prompt(search_context, user_query) ==
    <<"You are a helpful assistant. Please answer the user's question based ",
      "only on the following context provided.\n\n", "CONTEXT:\n">>
    \o search_context \o <<"\n\n", "USER'S QUESTION: ">> \o user_query

\* a tool call the executor's agent decides on
tool_call(tool, filename, content, fail) ==
    [tool |-> tool, filename |-> filename, content |-> content, fail |-> fail]

run_tool(st, c) ==
    CASE c.tool = "write_file" -> write_file(st, c.filename, c.content, c.fail)
      [] c.tool = "delete_file" -> delete_file(st, c.filename, c.fail)
      [] c.tool = "read_file" -> read_file(st, c.filename)
      [] OTHER -> result(st, "none", None)

\* an index update of the call was made to fail
index_fails(c) ==
    /\ c.tool = "write_file"
    /\ c.fail # "none"
    /\ _resolve(c.filename).exc = "none"

\* AgentExecutor.invoke: the tool calls of `calls` in order; an exception of a
\* tool ends the run and is raised to the caller; otherwise the agent's final
\* answer `output` is returned
\* (index_failed, history only: an index update of an executed call failed)
RECURSIVE agent_executor(_, _, _)
agent_executor(st, calls, output) ==
    IF calls = <<>>
    THEN [st |-> st, exc |-> "none", value |-> output, index_failed |-> FALSE]
    ELSE LET r == run_tool(st, Head(calls)) IN
         IF r.exc # "none"
         THEN [st |-> r.st, exc |-> r.exc, value |-> None,
               index_failed |-> index_fails(Head(calls))]
         ELSE [agent_executor(r.st, Tail(calls), output)
                   EXCEPT !.index_failed = @ \/ index_fails(Head(calls))]

\* (mutation of no_relevant_information_found: the context is compared with
\* the phrase instead of searched for it)
no_relevant_information_found_exact(search_context) ==
    search_context = <<"No relevant information found">>

\* the test plan makes on the search context
no_relevant_information_found(search_context) ==
    contains(search_context, <<"No relevant information found">>)

\* what the executor's agent does with a query that is a command
calls_for(user_query) ==
    IF Len(user_query) = 3 /\ user_query[1] = "delete"
    THEN <<tool_call("delete_file", <<user_query[3]>>, content_of("", 0), "none")>>
    ELSE <<>>

\* (mutation of plan: a retrieved context is handed to the tool executor with
\* the query instead of being answered by the llm)
plan_via_executor(st, user_query, response, calls, output, results, generated) ==
    LET base == [st |-> st, exc |-> "none", value |-> None,
                 response |-> response, route |-> "", context |-> <<>>,
                 retrieved |-> 0, prompt |-> <<>>, classifications |-> 1,
                 generations |-> 0, executions |-> 0, final |-> <<>>,
                 index_failed |-> FALSE, events |-> <<"classify">>]
        r == agent_executor(st, calls, output)
        f == agent_executor(st, calls_for(user_query), generated)
    IN
    IF _is_query_on_topic(response)
    THEN [base EXCEPT !.st = r.st, !.exc = r.exc, !.value = r.value,
                      !.route = "TOOL_EXECUTION", !.executions = 1,
                      !.final = r.value, !.index_failed = r.index_failed,
                      !.events = @ \o <<"execute">>]
    ELSE LET search_context == answer_question_about_files(results)
             found == [base EXCEPT !.route = "RETRIEVAL_FALLBACK",
                                   !.context = search_context,
                                   !.retrieved = Len(results),
                                   !.events = @ \o <<"search">>]
         IN  IF no_relevant_information_found(search_context)
             THEN [found EXCEPT !.value = refusal_message]
             ELSE [found EXCEPT !.st = f.st, !.exc = f.exc, !.value = f.value,
                                !.executions = 1, !.final = f.value,
                                !.index_failed = f.index_failed,
                                !.events = @ \o <<"execute">>]

\* (mutation of plan: the retrieval call is made before the verdict is looked
\* at, so an on-topic query is searched for and then handed to the executor)
plan_searching_first(st, user_query, response, calls, output, results, generated) ==
    LET base == [st |-> st, exc |-> "none", value |-> None,
                 response |-> response, route |-> "", context |-> <<>>,
                 retrieved |-> 0, prompt |-> <<>>, classifications |-> 1,
                 generations |-> 0, executions |-> 0, final |-> <<>>,
                 index_failed |-> FALSE, events |-> <<"classify", "search">>]
        search_context == answer_question_about_files(results)
    IN
    IF _is_query_on_topic(response)
    THEN LET r == agent_executor(st, calls, output)
         IN  [base EXCEPT !.st = r.st, !.exc = r.exc, !.value = r.value,
                          !.route = "TOOL_EXECUTION", !.executions = 1,
                          !.final = r.value, !.index_failed = r.index_failed,
                          !.events = @ \o <<"execute">>]
    ELSE LET found == [base EXCEPT !.route = "RETRIEVAL_FALLBACK",
                                   !.context = search_context,
                                   !.retrieved = Len(results)]
         IN  IF no_relevant_information_found(search_context)
             THEN [found EXCEPT !.value = refusal_message]
             ELSE [found EXCEPT !.prompt = final_prompt(search_context, user_query),
                                !.generations = 1,
                                !.final = generated,
                                !.value = generated,
                                !.events = @ \o <<"generate">>]

\* plan(user_query), given what its collaborators answer: the classifier's
\* `response`, the tool `calls` and final `output` of the executor's agent,
\* the `results` of the similarity search, the text `generated` by the llm
plan(st, user_query, response, calls, output, results, generated) ==
    LET base == [st |-> st, exc |-> "none", value |-> None,
                 response |-> response, route |-> "", context |-> <<>>,
                 retrieved |-> 0, prompt |-> <<>>, classifications |-> 1,
                 generations |-> 0, executions |-> 0, final |-> <<>>,
                 index_failed |-> FALSE, events |-> <<"classify">>]
    IN
    IF _is_query_on_topic(response)
    THEN LET r == agent_executor(st, calls, output)
         IN  [base EXCEPT !.st = r.st, !.exc = r.exc, !.value = r.value,
                          !.route = "TOOL_EXECUTION", !.executions = 1,
                          !.final = r.value, !.index_failed = r.index_failed,
                          !.events = @ \o <<"execute">>]
    ELSE LET search_context == answer_question_about_files(results)
             found == [base EXCEPT !.route = "RETRIEVAL_FALLBACK",
                                   !.context = search_context,
                                   !.retrieved = Len(results),
                                   !.events = @ \o <<"search">>]
         IN  IF no_relevant_information_found(search_context)
             THEN [found EXCEPT !.value = refusal_message]
             ELSE [found EXCEPT !.prompt = final_prompt(search_context, user_query),
                                !.generations = 1,
                                !.final = generated,
                                !.value = generated,
                                !.events = @ \o <<"generate">>]

----------------------------------------------------------------------------
(* Queries, one at a time *)

ClassifierResponses ==
    { <<"ON-TOPIC">>, <<" ", "On-Topic", "\n">>, <<"OFF-TOPIC">>, <<>>,
      <<"ON-TOPIC", ".">>, <<"yes">> }

PlanNames == { <<"a">> }

PlanContents == { Hello, Phrase }

ToolCalls ==
    { tool_call("write_file", f, c, "none") : f \in PlanNames, c \in PlanContents }
    \cup { tool_call("write_file", f, Hello, "embed") : f \in PlanNames }
    \cup { tool_call("delete_file", f, content_of("", 0), "none") :
               f \in PlanNames }

\* the tool-call sequences of at most n calls
RECURSIVE CallSeqs(_)
CallSeqs(n) ==
    IF n = 0 THEN { <<>> }
    ELSE LET shorter == CallSeqs(n - 1)
         IN  shorter \cup { Append(cs, c) : cs \in shorter, c \in ToolCalls }

ExecutorOutputs == { <<"Successfully wrote to ", "a", ".">> }

LlmOutputs == { <<"Tuesday">> }

\* the workspaces the agent is started on
PlanWorkspaces ==
    { EmptyWorkspace,
      (base_path \o <<"/", "a">>) :> Hello,
      (base_path \o <<"/", "a">>) :> Phrase }

InitPlan ==
    /\ \E d \in PlanWorkspaces :
         LET st == FileTools(d, NoIndex, <<>>, "none", {}).st
         IN  /\ disk = st.disk
             /\ vector_store = st.vector_store
             /\ saved = st.saved
             /\ writer = st.writer
    /\ last = NoCall
    /\ pc = Idle
    /\ req = NoRequest

Plan(user_query, response, calls, output, results, generated) ==
    /\ \E r \in { plan(st_now, user_query, response, calls, output, results,
                       generated) } :
           /\ BagCardinality(r.st.vector_store) <= MaxEntries
           /\ Install(r.st)
           /\ last' = [call("plan", user_query, content_of("", 0), "none",
                            r.exc, r.value)
                       EXCEPT !.response = r.response, !.route = r.route,
                              !.context = r.context, !.retrieved = r.retrieved,
                              !.prompt = r.prompt,
                              !.classifications = r.classifications,
                              !.generations = r.generations,
                              !.executions = r.executions, !.final = r.final,
                              !.index_failed = r.index_failed,
                              !.calls = calls, !.output = output,
                              !.events = r.events]
    /\ UNCHANGED <<pc, req>>

NextPlan ==
    \/ \E q \in Queries, response \in ClassifierResponses :
          \* the executor's agent and the llm answer only when plan calls them
          \/ /\ _is_query_on_topic(response)
             /\ \E calls \in CallSeqs(MaxToolCalls), output \in ExecutorOutputs :
                    Plan(q, response, calls, output, <<>>, <<>>)
          \/ /\ ~_is_query_on_topic(response)
             /\ \E results \in similarity_search(vector_store, q, top_k),
                   generated \in LlmOutputs :
                    Plan(q, response, <<>>, <<>>, results, generated)
    \/ \E f \in PlanNames, c \in PlanContents, x \in Failures :
            WriteFile(f, c, x)
    \/ \E x \in Failures, done \in SUBSET DOMAIN disk : Restart(x, done)

SpecPlan == InitPlan /\ [][NextPlan]_vars

----------------------------------------------------------------------------
(* The router's decisions *)

\* the classifier responses that are the on-topic verdict once trimmed and
\* upper-cased
OnTopicVerdicts == { <<"ON-TOPIC">>, <<" ", "On-Topic", "\n">> }

\* C6: plan takes the tool-execution path exactly when the classifier's
\* response, trimmed and upper-cased, is the on-topic verdict; every other
\* response takes the retrieval-fallback path.
C6_OnTopicIffVerdict ==
    last.op = "plan"
    => /\ last.response \in OnTopicVerdicts
            => last.route = "TOOL_EXECUTION" /\ last.executions = 1
       /\ last.response \notin OnTopicVerdicts
            => last.route = "RETRIEVAL_FALLBACK" /\ last.executions = 0

C6_Witness ==
    /\ last.op = "plan"
    /\ last.response = <<" ", "On-Topic", "\n">>
    /\ last.route = "TOOL_EXECUTION"
    /\ last.exc = "none"

\* C7: when the query is not on-topic and retrieval returns the sentinel,
\* plan returns the refusal message and invokes neither the generation
\* capability nor the tool executor.
C7_DeclinesOnSentinel ==
    (/\ last.op = "plan"
     /\ last.route = "RETRIEVAL_FALLBACK"
     /\ last.context = NoRelevantInformation)
    => /\ last.exc = "none"
       /\ last.value = refusal_message
       /\ last.generations = 0
       /\ last.executions = 0

C7_Witness ==
    /\ last.op = "plan"
    /\ last.route = "RETRIEVAL_FALLBACK"
    /\ last.context = NoRelevantInformation
    /\ disk = EmptyWorkspace
    /\ last.value = refusal_message

\* C8: when the query is not on-topic and retrieval returns at least one
\* excerpt, plan does not decline: it invokes the generation capability once
\* on the prompt built from the formatted context and the query, and returns
\* what it generated.
C8_AnswersWhenRetrieved ==
    (/\ last.op = "plan"
     /\ last.route = "RETRIEVAL_FALLBACK"
     /\ last.retrieved >= 1)
    => /\ last.generations = 1
       /\ last.prompt = final_prompt(last.context, last.arg)
       /\ last.value = last.final
       /\ last.value # refusal_message

\* C9: a plan call that takes the retrieval-fallback path leaves the files
\* of the workspace, their contents and the index (in memory and persisted)
\* as they were.
C9_FallbackChangesNothing ==
    [][(last'.op = "plan" /\ last'.route = "RETRIEVAL_FALLBACK")
          => UNCHANGED <<disk, vector_store, saved>>]_vars

\* a command-like query, answered from the retrieved context
C9_Witness ==
    /\ last.op = "plan"
    /\ last.route = "RETRIEVAL_FALLBACK"
    /\ last.arg = <<"delete", " ", "a">>
    /\ last.generations = 1
    /\ base_path \o <<"/", "a">> \in DOMAIN disk

\* C10: a failure of embedding or saving inside add_file or
\* rebuild_index_from_workspace makes the triggering call raise it:
\* write_file returns no success message, plan on the tool-execution path
\* raises, and so does the constructor that rebuilds.
C10_IndexFailureSurfaces ==
    /\ (/\ last.op = "write_file"
        /\ last.fail # "none"
        /\ _resolve(last.arg).exc = "none")
       => last.exc = "IndexFailure" /\ last.value = None
    /\ (last.op = "plan" /\ last.index_failed)
       => last.exc = "IndexFailure" /\ last.value = None
    /\ (/\ last.op = "FileTools"
        /\ \/ last.fail = "save"
           \/ last.fail = "embed" /\ \E p \in DOMAIN disk : InsideRoot(p))
       => last.exc = "IndexFailure"

C10_Witness ==
    /\ last.op = "plan"
    /\ last.route = "TOOL_EXECUTION"
    /\ last.index_failed
    /\ last.exc = "IndexFailure"
    /\ base_path \o <<"/", "a">> \in DOMAIN disk
    /\ vector_store = EmptyBag

\* how often the collaborator c was invoked
Invocations(events, c) == Cardinality({ i \in DOMAIN events : events[i] = c })

\* the terminal states of a plan call
Answered ==
    /\ last.exc = "none"
    /\ \/ last.route = "TOOL_EXECUTION" /\ last.value = last.output
       \/ /\ last.route = "RETRIEVAL_FALLBACK"
          /\ last.generations = 1
          /\ last.value = last.final

Declined ==
    /\ last.exc = "none"
    /\ last.value = refusal_message
    /\ last.generations = 0
    /\ last.executions = 0

\* the part of C21 that does not depend on how the call ends: the classifier
\* is invoked once and first, then either the tool executor or the retrieval
\* call, never both
PlanPath ==
    /\ last.events # <<>>
    /\ last.events[1] = "classify"
    /\ Invocations(last.events, "classify") = 1
    /\ last.classifications = 1
    /\ \/ /\ last.route = "TOOL_EXECUTION"
          /\ last.events = <<"classify", "execute">>
       \/ /\ last.route = "RETRIEVAL_FALLBACK"
          /\ last.events \in { <<"classify", "search">>,
                                <<"classify", "search", "generate">> }
    /\ ~(Invocations(last.events, "execute") > 0
            /\ Invocations(last.events, "search") > 0)

\* C21 (as claimed): every plan call follows START -> CLASSIFYING -> exactly
\* one of TOOL_EXECUTION or RETRIEVAL_FALLBACK -> ANSWERED or DECLINED: the
\* classifier is invoked once and first, executor and retrieval are never
\* both invoked, DECLINED is reached only from RETRIEVAL_FALLBACK, and an
\* on-topic query always ends with the executor's output as the answer.
C21_PlanAlwaysAnswersOrDeclines ==
    last.op = "plan"
    => /\ PlanPath
       /\ (Answered \/ Declined) /\ ~(Answered /\ Declined)
       /\ Declined => last.route = "RETRIEVAL_FALLBACK"
       /\ last.route = "TOOL_EXECUTION" => Answered

\* C21 (amended): every plan call invokes the classifier once and first and
\* then either the tool executor or the retrieval call, never both; a call
\* that returns ends ANSWERED or DECLINED, DECLINED only from
\* RETRIEVAL_FALLBACK and, for an on-topic query, ANSWERED with the
\* executor's output; a call ended by an exception (a tool of the executor
\* raising) gives no answer.
C21_PlanPathAndOutcome ==
    last.op = "plan"
    => /\ PlanPath
       /\ last.exc = "none" => (Answered \/ Declined) /\ ~(Answered /\ Declined)
       /\ last.exc # "none" => last.value = None /\ ~Answered /\ ~Declined
       /\ Declined => last.route = "RETRIEVAL_FALLBACK"
       /\ (last.route = "TOOL_EXECUTION" /\ last.exc = "none")
            => last.value = last.output

\* an on-topic query whose tool call raised: no answer
C21_Witness ==
    /\ last.op = "plan"
    /\ last.route = "TOOL_EXECUTION"
    /\ last.events = <<"classify", "execute">>
    /\ last.exc = "FileNotFoundError"
    /\ last.value = None

----------------------------------------------------------------------------
(* On-topic queries that make the executor write a file *)

\* the executor's agent answers at once, or after one write_file
WriteCalls ==
    { <<>> } \cup { <<tool_call("write_file", f, c, "none")>> :
                       f \in FileNames, c \in Contents }

NextAgentWrite ==
    \/ \E q \in Queries, calls \in WriteCalls, output \in ExecutorOutputs :
            Plan(q, <<"ON-TOPIC">>, calls, output, <<>>, <<>>)
    \/ \E f \in FileNames : DeleteFile(f, "none")

SpecAgentWrite == Init /\ [][NextAgentWrite]_vars

\* C14: when the query is on-topic and the executor performs one
\* write_file(f, c) with c of a single chunk, then after plan returns f holds
\* c, the index has gained exactly one entry, derived from f and with f as
\* its source, and plan's output is the executor's final output.
C14_OnTopicWriteIndexesFile ==
    [][(/\ last'.op = "plan"
        /\ last'.route = "TOOL_EXECUTION"
        /\ last'.exc = "none"
        /\ Len(last'.calls) = 1
        /\ last'.calls[1].tool = "write_file"
        /\ Cardinality(split_documents(last'.calls[1].content)) = 1)
          => LET c == last'.calls[1]
                 p == _resolve(c.filename).path
             IN  /\ p \in DOMAIN disk'
                 /\ disk'[p] = c.content
                 /\ last'.value = last'.output
                 /\ \E e \in BagToSet(vector_store') :
                        /\ vector_store' = vector_store (+) SetToBag({e})
                        /\ e.origin = p
                        /\ e.source = relative_to(p, base_path)]_vars

----------------------------------------------------------------------------
(* Two requests served at once by the server's one FileAgent *)

\* chat_completions is a sync endpoint: the server runs each request on a
\* thread of its pool, and all of them call the module-level `agent`.  A
\* thread is between two statements of write_file or delete_file; the other
\* thread may run in between.

ConcNames == { <<"a">>, <<"b">> }

Writing == { t \in Threads : pc[t] \in {"write_text", "add_file"} }

Return(t, exc) ==
    /\ pc' = [pc EXCEPT ![t] = "idle"]
    /\ req' = [req EXCEPT ![t].exc = exc]
    /\ last' = call(req[t].op, req[t].filename, req[t].content, "none", exc, None)

\* write_file: p = self._resolve(filename)
BeginWrite(t, filename, content) ==
    /\ pc[t] = "idle"
    /\ Room(Cardinality(split_documents(content)) + Cardinality(Writing))
    /\ LET r == _resolve(filename) IN
       /\ req' = [req EXCEPT ![t] = request("write_file", filename, content, r.path,
                                            IF r.exc = "none" THEN "" ELSE r.exc)]
       /\ pc' = [pc EXCEPT ![t] = IF r.exc = "none" THEN "write_text" ELSE "idle"]
    /\ UNCHANGED <<disk, vector_store, saved, writer, last>>

\* write_file: p.parent.mkdir(...); p.write_text(content)
WriteText(t) ==
    /\ pc[t] = "write_text"
    /\ disk' = (req[t].path :> write_text(req[t].content)) @@ disk
    /\ writer' = (req[t].path :> req[t].filename) @@ writer
    /\ pc' = [pc EXCEPT ![t] = "add_file"]
    /\ UNCHANGED <<vector_store, saved, last, req>>

\* write_file: self.vector_store_manager.add_file(p); return
AddFile(t) ==
    /\ pc[t] = "add_file"
    /\ \E r \in { add_file(st_now, req[t].path, TRUE, "none") } :
         /\ Install(r.st)
         /\ Return(t, r.exc)

\* delete_file: p = self._resolve(filename); if not p.exists(): raise
BeginDelete(t, filename) ==
    /\ pc[t] = "idle"
    /\ LET r == _resolve(filename)
           exc == IF r.exc # "none" THEN r.exc
                  ELSE IF r.path \notin DOMAIN disk THEN "FileNotFoundError"
                  ELSE ""
       IN
       /\ req' = [req EXCEPT ![t] = request("delete_file", filename,
                                            content_of("", 0), r.path, exc)]
       /\ pc' = [pc EXCEPT ![t] = IF exc = "" THEN "remove_file" ELSE "idle"]
    /\ UNCHANGED <<disk, vector_store, saved, writer, last>>

\* delete_file: self.vector_store_manager.remove_file(filename)
RemoveFile(t) ==
    /\ pc[t] = "remove_file"
    /\ \E r \in { remove_file(st_now, req[t].filename, "none") } :
         Install(r.st)
    /\ pc' = [pc EXCEPT ![t] = "unlink"]
    /\ UNCHANGED <<last, req>>

\* delete_file: p.unlink(); return
Unlink(t) ==
    /\ pc[t] = "unlink"
    /\ IF req[t].path \in DOMAIN disk
       THEN /\ disk' = unlink(disk, req[t].path)
            /\ Return(t, "none")
       ELSE /\ disk' = disk
            /\ Return(t, "FileNotFoundError")
    /\ UNCHANGED <<vector_store, saved, writer>>

NextConc ==
    \E t \in Threads :
        \/ \E f \in ConcNames : BeginWrite(t, f, Hello)
        \/ WriteText(t)
        \/ AddFile(t)
        \/ \E f \in ConcNames : BeginDelete(t, f)
        \/ RemoveFile(t)
        \/ Unlink(t)

SpecConc == Init /\ [][NextConc]_vars

\* C5: once the write_file and delete_file calls of both requests have
\* returned, a file is on disk if and only if the index holds entries
\* derived from it.
C5_FileIffIndexedWhenReturned ==
    (\A t \in Threads : pc[t] = "idle")
    => \A f \in ConcNames :
         LET p == _resolve(f).path IN
         p \in DOMAIN disk <=> EntriesFrom(vector_store, p) # EmptyBag

----------------------------------------------------------------------------
(* The tools on a name like the index directory's and on a text with a     *)
(* carriage return                                                         *)

\* "x\r\ny": a text with a Windows line ending, 4 characters
CrLf == content_of("x\r\ny", 4)

\* plain, the same with whitespace and quotes around it, and a user file
\* whose name begins like the index directory's: "faiss_index.txt"
ToolNames ==
    { <<"a">>, <<" ", "'", "a", "'", " ">>, <<"faiss_index", ".txt">> }

ToolContents == { Hello, CrLf }

ToolQueries == { <<"Any files", "?">> }

ListFiles ==
    /\ last' = [call("list_files", <<>>, content_of("", 0), "none", "none", None)
                EXCEPT !.listing = list_files(st_now)]
    /\ UNCHANGED <<disk, vector_store, saved, writer, pc, req>>

AnswerQuestion(query) ==
    /\ \E results \in similarity_search(vector_store, query, top_k) :
         last' = [call("answer_question_about_files", query, content_of("", 0),
                       "none", "none", answer_question_about_files(results))
                  EXCEPT !.retrieved = Len(results), !.results = results]
    /\ UNCHANGED <<disk, vector_store, saved, writer, pc, req>>

NextTools ==
    \/ \E f \in ToolNames, c \in ToolContents : WriteFile(f, c, "none")
    \/ \E f \in ToolNames : DeleteFile(f, "none")
    \/ \E f \in ToolNames : ReadFile(f)
    \/ ListFiles
    \/ \E q \in ToolQueries : AnswerQuestion(q)
    \/ Restart("none", {})

SpecTools == Init /\ [][NextTools]_vars

\* C11: write_file(f, c) followed at once by read_file(f) returns exactly c,
\* whether f was absent or present before the write and however f is quoted.
C11_ReadReturnsWhatWasWritten ==
    [][(/\ last.op = "write_file"
        /\ last.exc = "none"
        /\ last'.op = "read_file"
        /\ _resolve(last'.arg).path = _resolve(last.arg).path)
          => /\ last'.exc = "none"
             /\ last'.value = <<last.content.text>>]_vars

WorkspaceFiles(d) ==
    { p \in DOMAIN d : is_under(p, base_path) /\ ~is_under(p, index_path) }

\* C16: list_files returns the relative path of every regular file under the
\* root except those inside the index directory, and nothing else: every user
\* file whatever its name, no index artifact, nothing on an empty workspace.
C16_ListsEveryUserFile ==
    last.op = "list_files"
    => last.listing = { relative_to(p, base_path) : p \in WorkspaceFiles(disk) }

\* the characters of a str given by its fragments
RECURSIVE text_of(_)
text_of(s) == IF s = <<>> THEN "" ELSE Head(s) \o text_of(Tail(s))

\* Python's `needle in text`, character by character
in_text(needle, text) ==
    \E i \in 1..(Len(text) - Len(needle) + 1) :
        SubSeq(text, i, i + Len(needle) - 1) = needle

\* C17: on a workspace that contains no files, answer_question_about_files
\* returns a text containing "There are no files".
C17_NoFilesAnswer ==
    (last.op = "answer_question_about_files" /\ WorkspaceFiles(disk) = {})
    => in_text("There are no files", text_of(last.value))

\* C19: after rebuild_index_from_workspace has completed (the constructor's
\* rebuild included), the files that have entries in the index are exactly
\* the regular files under the root outside the index directory, whatever
\* their names and whatever index was persisted before.
C19_RebuildIndexesEveryUserFile ==
    Completed("FileTools")
    => { e.origin : e \in BagToSet(vector_store) } = WorkspaceFiles(disk)

----------------------------------------------------------------------------
(* write_file and delete_file when the index update fails *)

FailNames == { <<"a">>, <<"b">> }

NextFail ==
    \/ \E f \in FailNames, x \in Failures : WriteFile(f, Hello, x)
    \/ \E f \in FailNames, x \in {"none", "save"} : DeleteFile(f, x)

SpecFail == Init /\ [][NextFail]_vars

\* C18: when the index update fails during write_file or delete_file, the
\* call fails atomically: the files on disk and the index, in memory and
\* persisted, are as they were before the call.
C18_IndexFailureIsAtomic ==
    [][(/\ last'.op \in {"write_file", "delete_file"}
        /\ last'.exc = "IndexFailure")
          => UNCHANGED <<disk, vector_store, saved>>]_vars

----------------------------------------------------------------------------
(* One request at a time, statement by statement *)

\* the statements of write_file and delete_file as in the two-request model,
\* run by one thread: no other call runs in between
NextSteps ==
    \/ \E f \in FileNames : BeginWrite(1, f, Hello)
    \/ WriteText(1)
    \/ AddFile(1)
    \/ \E f \in FileNames : BeginDelete(1, f)
    \/ RemoveFile(1)
    \/ Unlink(1)

SpecSteps == Init /\ [][NextSteps]_vars

\* C22: in delete_file the index removal comes before the unlink, so at no
\* point during or after a delete is a file absent from disk while entries
\* derived from it are in the index.
C22_NoEntriesOfAbsentFile ==
    /\ pc[1] = "unlink"
         => ids_to_delete(vector_store, req[1].filename) = {}
    /\ \A p \in DOMAIN writer :
         p \notin DOMAIN disk => EntriesFrom(vector_store, p) = EmptyBag

----------------------------------------------------------------------------
(* Searches on indexes of up to six entries *)

SearchFiles ==
    { base_path \o <<"/", "a">>, base_path \o <<"/", "b">>,
      base_path \o <<"/", "c">> }

\* the workspaces the program is started on: each file absent, of one chunk
\* or of two
SearchWorkspaces ==
    UNION { [fs -> {Hello, Long}] : fs \in SUBSET SearchFiles }

InitSearch ==
    /\ \E d \in SearchWorkspaces :
         LET st == FileTools(d, NoIndex, <<>>, "none", {}).st
         IN  /\ disk = st.disk
             /\ vector_store = st.vector_store
             /\ saved = st.saved
             /\ writer = st.writer
    /\ last = NoCall
    /\ pc = Idle
    /\ req = NoRequest

NextSearch ==
    \/ \E q \in Queries : AnswerQuestion(q)
    \/ \E f \in { <<"a">>, <<"b">>, <<"c">> } : DeleteFile(f, "none")

SpecSearch == InitSearch /\ [][NextSearch]_vars

\* the excerpt blocks of the results i, i+1, ... in that order
RECURSIVE BlocksFrom(_, _)
BlocksFrom(r, i) ==
    IF i > Len(r) THEN <<>>
    ELSE <<"--- Excerpt from: ">> \o r[i].source \o <<" ---\n">>
         \o r[i].page_content \o <<"\n\n">> \o BlocksFrom(r, i + 1)

\* C23: search returns at most 3 excerpts, exactly min(3, number of index
\* entries) of them, in order of descending similarity to the query, each
\* labeled with the source of the entry it came from, and the formatted
\* context lists them in that ranked order.
C23_TopThreeRanked ==
    last.op = "answer_question_about_files"
    => LET r == last.results
           n == BagCardinality(vector_store)
           docs == BagToSet(vector_store)
       IN  /\ Len(r) <= 3
           /\ Len(r) = Min(3, n)
           /\ \A i \in DOMAIN r : r[i] \in docs
           /\ \A e \in docs : Count(r, e) <= vector_store[e]
           /\ \A i \in 1..(Len(r) - 1) :
                  Score(last.arg, r[i]) >= Score(last.arg, r[i + 1])
           /\ \A e \in docs : Count(r, e) < vector_store[e] =>
                  \A i \in DOMAIN r : Score(last.arg, r[i]) >= Score(last.arg, e)
           /\ n > 0 =>
                  last.value = <<"Relevant excerpts from documents found:\n\n">>
                                   \o BlocksFrom(r, 1)

\* a search on an index of more than three entries, the nearest first
C23_Witness ==
    /\ last.op = "answer_question_about_files"
    /\ BagCardinality(vector_store) > 3
    /\ Len(last.results) = 3
    /\ Score(last.arg, last.results[1]) > Score(last.arg, last.results[3])
    /\ last.results[1].source # last.results[3].source

----------------------------------------------------------------------------
(* The persisted index, with saves and embeddings that may fail *)

NextPersist ==
    \/ NextFail
    \/ \E x \in Failures, done \in SUBSET DOMAIN disk : Restart(x, done)

SpecPersist == Init /\ [][NextPersist]_vars

\* C24: after every completed write_file, delete_file or
\* rebuild_index_from_workspace the persisted index equals the index in
\* memory; a delete that removed no entry leaves the persisted index as it
\* was, and a rebuild persists nothing before its last file was added.
C24_PersistedEqualsMemory ==
    [][/\ (/\ last'.op \in {"write_file", "delete_file", "FileTools"}
            /\ last'.exc = "none")
              => saved' = save_local(vector_store')
       /\ (/\ last'.op = "delete_file"
            /\ last'.exc = "none"
            /\ vector_store' = vector_store)
              => saved' = saved
       /\ (last'.op = "FileTools" /\ last'.exc # "none")
              => saved' = NoIndex]_vars

====
